---- MODULE Spec2Model ----
(***************************************************************************)
(* The ACP 2014 challenge program (src/unnamed/part_000): the instance     *)
(* loader AcpData, the model construction in Solve, the Swap local search  *)
(* operator and the local search Filter.                                   *)
(*                                                                         *)
(* C++ containers are 0-based; the sequences below are 1-based, so the C++ *)
(* element v[i] is v[i + 1] here.  Period, product and item numbers keep   *)
(* their 0-based C++ values.                                               *)
(***************************************************************************)
EXTENDS Integers, Sequences, FiniteSets, TLC

VARIABLES
  \* AcpData
  num_periods_, num_products_, inventory_cost_, due_dates_per_product_,
  transitions_, state_,
  \* the FileLineReader of AcpData::Load, and the due-date rows it has handed
  \* to ProcessNewLine
  reader, lines_read, flag_rows,
  \* Solve: position, locals and the model it builds
  pc, num_items, num_residuals, item_to_product, max_cost,
  transition_cost_tuples, product_tuples, deliveries, less_constraints,
  inventory_costs,
  \* the values of the decision variables in the solution last reported, the
  \* value of objective_var in it, and the number of solutions reported
  items, products, states, transition_costs, delivery_values,
  objective_value, num_solutions,
  \* Swap
  swap_size, index1_, index2_, old_values, swap_values, proposed, swap_ret,
  \* Filter
  filter_items, filter_values, tmp_solution_, current_position_,
  current_cost_, filter_state, last_delta, accept_ret,
  \* whether the last call of Filter::Accept found in tmp_solution_ the
  \* schedule of an earlier candidate
  scratch_was_changed

dataVars == <<num_periods_, num_products_, inventory_cost_,
              due_dates_per_product_, transitions_, state_>>
readerVars == <<reader, lines_read, flag_rows>>
countVars == <<num_items, num_residuals>>
buildVars == <<item_to_product, max_cost, transition_cost_tuples,
               product_tuples, deliveries, less_constraints, inventory_costs>>
schedVars == <<items, products, states, transition_costs, delivery_values,
               objective_value, num_solutions>>
swapVars == <<swap_size, index1_, index2_, old_values, swap_values, proposed,
              swap_ret>>
filterVars == <<filter_items, filter_values, tmp_solution_, current_position_,
                current_cost_, filter_state, last_delta, accept_ret,
                scratch_was_changed>>
vars == <<dataVars, readerVars, pc, countVars, buildVars, schedVars, swapVars,
          filterVars>>

-----------------------------------------------------------------------------
(* Bounds of the model.                                                    *)

\* pieces (tokens and empty pieces between two separators) on one line
MaxLineLen == 2
\* non-empty lines of one input file
MaxLines == 7
\* periods, products and items of an instance, and the largest transition
\* cost
MaxPeriods == 3
MaxProducts == 2
MaxItems == 2
MaxCost == 2
\* periods and items of an instance whose search loop is followed
MaxSearchPeriods == 2
MaxSearchItems == 1
\* variables of a Swap operator
MaxSwapSize == 3
\* calls of Swap::MakeOneNeighbor in one pass
MaxMoves == 12
\* variables of a Filter
MaxFilterSize == 2

-----------------------------------------------------------------------------
(* Helpers.                                                                *)

\* the C++ element v[i]
At(v, i) == v[i + 1]

\* all sequences over S of length at most n
SeqsUpTo(S, n) == UNION {[1..k -> S] : k \in 0..n}

RECURSIVE SumSizes(_)
\* Solve, lines 257-260: num_items += d.size() for every d
SumSizes(vv) ==
  IF vv = <<>> THEN 0 ELSE Len(Head(vv)) + SumSizes(Tail(vv))

-----------------------------------------------------------------------------
(* The input file.  A line is the sequence of pieces between its " "       *)
(* separators; a piece is a sequence of decimal digits, empty between two  *)
(* adjacent separators.                                                    *)

Pieces == {<<>>, <<0>>, <<1>>, <<2>>, <<0, 1>>}

Lines == SeqsUpTo(Pieces, MaxLineLen)

IsNonEmptyPiece(w) == w # <<>>

\* strings::Split(line, " ", strings::SkipEmpty())
Split(line) == SelectSeq(line, IsNonEmptyPiece)

RECURSIVE Atoi32Acc(_, _)
Atoi32Acc(w, acc) ==
  IF w = <<>> THEN acc ELSE Atoi32Acc(Tail(w), 10 * acc + Head(w))

\* atoi32 of a token of decimal digits
Atoi32(w) == Atoi32Acc(w, 0)

-----------------------------------------------------------------------------
(* AcpData                                                                 *)

RECURSIVE DueDatesLoop_AnyNonZero(_, _, _, _)
\* DueDatesLoop with the flag test "!= 0" in place of "== 1"
DueDatesLoop_AnyNonZero(words, i, n, acc) ==
  IF i >= n THEN acc
  ELSE DueDatesLoop_AnyNonZero(words, i + 1, n,
         IF Atoi32(At(words, i)) # 0 THEN Append(acc, i) ELSE acc)

RECURSIVE DueDatesLoop(_, _, _, _)
\* ProcessNewLine, case 2: for (i = 0; i < num_periods_; ++i) push_back(i)
\* when atoi32(words[i]) == 1
DueDatesLoop(words, i, n, acc) ==
  IF i >= n THEN acc
  ELSE DueDatesLoop(words, i + 1, n,
                    IF Atoi32(At(words, i)) = 1 THEN Append(acc, i) ELSE acc)

\* ProcessNewLine, case 4: push_back(atoi32(words[i])) for i < num_products_
TransitionRow(words, n) == [i \in 1..n |-> Atoi32(words[i])]

\* the flags of a due-date row as the file states them: which tokens read 1
FlagRow(words) == [i \in 1..Len(words) |-> Atoi32(words[i]) = 1]

\* AcpData::Load when the reader cannot open the file: an error is logged
\* and Load returns to Solve.
Load_Unreadable ==
  /\ pc = "load" /\ reader = "closed"
  /\ reader' = "failed"
  /\ pc' = "count"
  /\ UNCHANGED <<dataVars, lines_read, flag_rows, countVars, buildVars,
                 schedVars, swapVars, filterVars>>

\* AcpData::Load: the reader opens the file and starts calling back.
Load_Open ==
  /\ pc = "load" /\ reader = "closed"
  /\ reader' = "open"
  /\ UNCHANGED <<dataVars, lines_read, flag_rows, pc, countVars, buildVars,
                 schedVars, swapVars, filterVars>>

\* AcpData::ProcessNewLine on one line of the file
ProcessNewLine(line) ==
  LET words == Split(line) IN
  /\ pc = "load" /\ reader = "open"
  /\ IF words = <<>>
     THEN UNCHANGED <<dataVars, lines_read, flag_rows, pc>>
     ELSE
       /\ lines_read < MaxLines
       /\ lines_read' = lines_read + 1
       /\ flag_rows' = IF state_ = 2 /\ Len(words) = num_periods_
                       THEN Append(flag_rows, FlagRow(words))
                       ELSE flag_rows
       /\ CASE state_ = 0 ->
                 /\ num_periods_' = Atoi32(words[1])
                 /\ state_' = 1
                 /\ UNCHANGED <<num_products_, inventory_cost_,
                                due_dates_per_product_, transitions_, pc>>
            [] state_ = 1 ->
                 /\ num_products_' = Atoi32(words[1])
                 /\ state_' = 2
                 /\ UNCHANGED <<num_periods_, inventory_cost_,
                                due_dates_per_product_, transitions_, pc>>
            [] state_ = 2 ->
                 LET resized == Append(due_dates_per_product_, <<>>) IN
                 IF Len(words) # num_periods_
                 THEN /\ pc' = "aborted"
                      /\ due_dates_per_product_' = resized
                      /\ UNCHANGED <<num_periods_, num_products_,
                                     inventory_cost_, transitions_, state_>>
                 ELSE /\ due_dates_per_product_' =
                           [resized EXCEPT ![Len(resized)] =
                              DueDatesLoop(words, 0, num_periods_, <<>>)]
                      /\ state_' = IF Len(resized) = num_products_
                                   THEN 3 ELSE 2
                      /\ UNCHANGED <<num_periods_, num_products_,
                                     inventory_cost_, transitions_, pc>>
            [] state_ = 3 ->
                 /\ inventory_cost_' = Atoi32(words[1])
                 /\ state_' = 4
                 /\ UNCHANGED <<num_periods_, num_products_,
                                due_dates_per_product_, transitions_, pc>>
            [] state_ = 4 ->
                 IF Len(words) # num_products_
                 THEN /\ pc' = "aborted"
                      /\ transitions_' = Append(transitions_, <<>>)
                      /\ UNCHANGED <<num_periods_, num_products_,
                                     inventory_cost_, due_dates_per_product_,
                                     state_>>
                 ELSE /\ transitions_' =
                           Append(transitions_,
                                  TransitionRow(words, num_products_))
                      /\ UNCHANGED <<num_periods_, num_products_,
                                     inventory_cost_, due_dates_per_product_,
                                     state_, pc>>
  /\ UNCHANGED <<reader, countVars, buildVars, schedVars, swapVars,
                 filterVars>>

\* AcpData::Load: the reader reaches the end of the file and Load returns.
Load_Eof ==
  /\ pc = "load" /\ reader = "open"
  /\ reader' = "loaded"
  /\ pc' = "count"
  /\ UNCHANGED <<dataVars, lines_read, flag_rows, countVars, buildVars,
                 schedVars, swapVars, filterVars>>

-----------------------------------------------------------------------------
(* Solve                                                                   *)

\* Solve_CountItems with the operands of the subtraction exchanged
Solve_CountItems_Exchanged ==
  /\ pc = "count"
  /\ num_items' = SumSizes(due_dates_per_product_)
  /\ num_residuals' = SumSizes(due_dates_per_product_) - num_periods_
  /\ pc' = "build"
  /\ UNCHANGED <<dataVars, readerVars, buildVars, schedVars, swapVars,
                 filterVars>>

\* Solve, lines 257-264: num_items and num_residuals
Solve_CountItems ==
  /\ pc = "count"
  /\ num_items' = SumSizes(due_dates_per_product_)
  /\ num_residuals' = num_periods_ - SumSizes(due_dates_per_product_)
  /\ pc' = "build"
  /\ UNCHANGED <<dataVars, readerVars, buildVars, schedVars, swapVars,
                 filterVars>>

\* the larger of two ints (std::max)
Max(a, b) == IF a >= b THEN a ELSE b

\* What reading past the end of a vector may yield when the process goes on:
\* a row of due dates and a transition cost.
Garbage == [row : {<<>>, <<0>>}, cost : {0, 1}]

\* data.due_dates_per_product()[i]; past the end of the vector the read is
\* undefined and yields g.row
DueDatesOf(i, g) ==
  IF i < Len(due_dates_per_product_) THEN At(due_dates_per_product_, i)
  ELSE g.row

\* data.transitions()[i][j]; past the end of the vector the read is undefined
\* and yields g.cost
TransitionOf(i, j, g) ==
  IF i < Len(transitions_) /\ j < Len(At(transitions_, i))
  THEN At(At(transitions_, i), j)
  ELSE g.cost

\* Solve reads data.due_dates_per_product()[i] for every i < num_products
ReadsPastDueDates == Len(due_dates_per_product_) < num_products_

\* Solve reads data.transitions()[i][j] for every i, j < num_products
ReadsPastTransitions ==
  \E i \in 0..(num_products_ - 1) :
    IF i >= Len(transitions_) THEN TRUE
    ELSE Len(At(transitions_, i)) < num_products_

\* line 349 calls deliveries.back() for the second and later items of a
\* product, while deliveries is still empty
CallsBackOnEmpty(g) ==
  \E i \in 0..(num_products_ - 1) : Len(DueDatesOf(i, g)) > 1

\* lines 391-392 read states[0] and products[0] of arrays of num_periods
\* variables
ReadsFirstOfEmpty == num_periods_ < 1

RECURSIVE Repeat(_, _)
\* n copies of x
Repeat(x, n) == IF n <= 0 THEN <<>> ELSE <<x>> \o Repeat(x, n - 1)

RECURSIVE ItemToProduct(_, _)
\* Solve, lines 266-271, from product i on
ItemToProduct(i, g) ==
  IF i >= num_products_ THEN <<>>
  ELSE Repeat(i, Len(DueDatesOf(i, g))) \o ItemToProduct(i + 1, g)

RECURSIVE PairTuples_FreeContinuation(_, _, _)
\* PairTuples with the cost of the continuation tuple of line 287 reset to 0
PairTuples_FreeContinuation(i, j, g) ==
  IF j >= num_products_ THEN <<>>
  ELSE << <<i, i, j, j, TransitionOf(i, j, g)>>,
          <<-1, i, j, j, 0>> >>
       \o PairTuples_FreeContinuation(i, j + 1, g)

RECURSIVE PairTuples(_, _, _)
\* Solve, lines 278-289: the tuples inserted for product i and the products
\* from j on, in insertion order
PairTuples(i, j, g) ==
  IF j >= num_products_ THEN <<>>
  ELSE << <<i, i, j, j, TransitionOf(i, j, g)>>,
          <<-1, i, j, j, TransitionOf(i, j, g)>> >>
       \o PairTuples(i, j + 1, g)

RECURSIVE InsertedTuples_KeepsValue(_, _)
\* InsertedTuples without the assignment tuple[0] = -1 of line 297
InsertedTuples_KeepsValue(i, g) ==
  IF i >= num_products_ THEN << <<-1, -1, -1, -1, 0>> >>
  ELSE PairTuples(i, 0, g)
       \o << <<i, i, -1, i, 0>>, <<i, i, -1, i, 0>>, <<-1, -1, i, i, 0>> >>
       \o InsertedTuples_KeepsValue(i + 1, g)

RECURSIVE InsertedTuples(_, _)
\* Solve, lines 277-318: every tuple handed to transition_cost_tuples.Insert
\* from product i on, in insertion order
InsertedTuples(i, g) ==
  IF i >= num_products_ THEN << <<-1, -1, -1, -1, 0>> >>
  ELSE PairTuples(i, 0, g)
       \o << <<i, i, -1, i, 0>>, <<-1, i, -1, i, 0>>, <<-1, -1, i, i, 0>> >>
       \o InsertedTuples(i + 1, g)

\* IntTupleSet after inserting the tuples of s: a tuple already present is
\* not inserted again
TupleSetOf(s) == {s[k] : k \in DOMAIN s}

RECURSIVE MaxCostLoop(_, _)
\* Solve, lines 274 and 280: max_cost = std::max(max_cost, cost), over the
\* inserted pair tuples
MaxCostLoop(s, acc) ==
  IF s = <<>> THEN acc ELSE MaxCostLoop(Tail(s), Max(acc, Head(s)[5]))

\* Solve, lines 322-328: product_tuples
ProductTuples(itp, nitems, nresiduals) ==
  {<<i, At(itp, i)>> : i \in 0..(Len(itp) - 1)}
    \cup {<<nitems + i, -1>> : i \in 0..nresiduals}

\* the delivery variable of item j of product i (line 347)
DeliveryVar(i, j, g) ==
  [name |-> <<"delivery", i, j>>, min |-> 0, max |-> At(DueDatesOf(i, g), j)]

\* the variable of a residual slot (line 357)
InactiveVar == [name |-> <<"inactive">>, min |-> 0, max |-> num_periods_ - 1]

\* deliveries.back() of an empty vector: undefined, some dangling variable
DanglingVar == [name |-> <<"dangling">>, min |-> 0, max |-> 0]

\* deliveries.back()
Back(v) == IF v = <<>> THEN DanglingVar ELSE v[Len(v)]

RECURSIVE LessLoop(_, _, _, _)
\* Solve, lines 343-354: the MakeLess constraints posted from item j of
\* product i on; dv is the vector deliveries at that point
LessLoop(i, j, dv, g) ==
  IF i >= num_products_ THEN <<>>
  ELSE IF j >= Len(DueDatesOf(i, g)) THEN LessLoop(i + 1, 0, dv, g)
  ELSE (IF j > 0
        THEN << [left |-> Back(dv), right |-> DeliveryVar(i, j, g)] >>
        ELSE <<>>)
       \o LessLoop(i, j + 1, dv, g)

RECURSIVE InventoryCostsLoop(_, _, _)
\* Solve, lines 343-354: inventory_costs, one difference due_date - delivery
\* for each item
InventoryCostsLoop(i, j, g) ==
  IF i >= num_products_ THEN <<>>
  ELSE IF j >= Len(DueDatesOf(i, g)) THEN InventoryCostsLoop(i + 1, 0, g)
  ELSE << [due_date |-> At(DueDatesOf(i, g), j),
           delivery |-> DeliveryVar(i, j, g)] >>
       \o InventoryCostsLoop(i, j + 1, g)

\* Solve, lines 343-359: the vector deliveries once both loops have run; the
\* first loop never pushes the variable it creates
Deliveries(nresiduals) == Repeat(InactiveVar, nresiduals)

\* Solve, lines 266-392: the tuple sets, the variables and the constraints.
\* A read past the end of a vector either ends the process or yields garbage.
Solve_BuildModel ==
  /\ pc = "build"
  /\ \E g \in Garbage, crash \in BOOLEAN :
       LET undefined == TRUE \in {ReadsPastDueDates, ReadsPastTransitions,
                                  CallsBackOnEmpty(g), ReadsFirstOfEmpty}
           inserted == InsertedTuples(0, g)
           itp == ItemToProduct(0, g)
       IN
       /\ crash => undefined
       /\ ~undefined => g = [row |-> <<>>, cost |-> 0]
       /\ pc' = IF crash THEN "crashed" ELSE "built"
       /\ item_to_product' = itp
       /\ max_cost' = MaxCostLoop(inserted, 0)
       /\ transition_cost_tuples' = TupleSetOf(inserted)
       /\ product_tuples' = ProductTuples(itp, num_items, num_residuals)
       /\ deliveries' = Deliveries(num_residuals)
       /\ less_constraints' = LessLoop(0, 0, <<>>, g)
       /\ inventory_costs' = InventoryCostsLoop(0, 0, g)
  /\ UNCHANGED <<dataVars, readerVars, countVars, schedVars, swapVars,
                 filterVars>>

-----------------------------------------------------------------------------
(* The search.  Solve posts its constraints on the arrays items, products, *)
(* states and transition_costs of num_periods (num_periods - 1) variables; *)
(* a schedule is an assignment of these variables.  The inverse-           *)
(* permutation constraint of lines 360-361 and the MakeLess constraints of *)
(* line 349 bear on the vector deliveries, which holds no variable of a    *)
(* real item: the schedules below are those that satisfy every constraint  *)
(* posted on the four arrays themselves.                                   *)

\* MakeIsEqualCstVar(v, c): 1 when v = c, else 0
IsEqualCst(v, c) == IF v = c THEN 1 ELSE 0

\* lines 364-369: MakeAllowedAssignments({items[p], products[p]},
\* product_tuples) for every period p
LinkHolds(its, prods) ==
  \A p \in DOMAIN its : <<its[p], prods[p]>> \in product_tuples

\* lines 379-388: MakeAllowedAssignments over products[p], states[p],
\* products[p + 1], states[p + 1], transition_costs[p] for p < num_periods - 1
TransitionsHold(prods, sts, tcs) ==
  \A p \in 1..(Len(prods) - 1) :
    <<prods[p], sts[p], prods[p + 1], sts[p + 1], tcs[p]>>
      \in transition_cost_tuples

\* lines 390-392: IsEqualCst(states[0], -1) >= IsEqualCst(products[0], -1)
FirstElementRule(prods, sts) ==
  IsEqualCst(At(sts, 0), -1) >= IsEqualCst(At(prods, 0), -1)

\* lines 334-338 and 374-378: the domains of the variables
ItemDomain == 0..(num_periods_ - 1)
ProductDomain == -1..(num_products_ - 1)
StateDomain == -1..(num_products_ - 1)
CostDomain == 0..max_cost

RECURSIVE Schedules(_)
\* the assignments of the first k periods that satisfy the constraints which
\* bear on those periods
Schedules(k) ==
  IF k = 0
  THEN {[items |-> <<>>, products |-> <<>>, states |-> <<>>,
         transition_costs |-> <<>>]}
  ELSE LET ends == {e \in [item : ItemDomain, product : ProductDomain,
                           state : StateDomain] :
                      <<e.item, e.product>> \in product_tuples}
       IN
       IF k = 1
       THEN {[items |-> <<e.item>>, products |-> <<e.product>>,
              states |-> <<e.state>>, transition_costs |-> <<>>] :
               e \in {x \in ends :
                        FirstElementRule(<<x.product>>, <<x.state>>)}}
       ELSE UNION {
              {[items |-> Append(s.items, e.item),
                products |-> Append(s.products, e.product),
                states |-> Append(s.states, e.state),
                transition_costs |-> Append(s.transition_costs, t[5])] :
                 t \in {x \in transition_cost_tuples :
                          /\ x[1] = s.products[k - 1]
                          /\ x[2] = s.states[k - 1]
                          /\ x[3] = e.product
                          /\ x[4] = e.state
                          /\ x[5] \in CostDomain}} :
              s \in Schedules(k - 1), e \in ends}

\* whether an assignment satisfies the constraints
IsSchedule(its, prods, sts, tcs) ==
  /\ its \in [1..num_periods_ -> ItemDomain]
  /\ prods \in [1..num_periods_ -> ProductDomain]
  /\ sts \in [1..num_periods_ -> StateDomain]
  /\ tcs \in [1..(num_periods_ - 1) -> CostDomain]
  /\ LinkHolds(its, prods)
  /\ TransitionsHold(prods, sts, tcs)
  /\ FirstElementRule(prods, sts)

RECURSIVE SumSeq(_)
\* Solver::MakeSum over the values of an array of variables
SumSeq(s) == IF s = <<>> THEN 0 ELSE Head(s) + SumSeq(Tail(s))

\* lines 346-347: the values the delivery variables may take, each within
\* [0, due_date].  The MakeLess constraints of line 349 have the dangling
\* deliveries.back() as their left operand and bound no variable of the model.
DeliveryValues ==
  {dv \in [DOMAIN inventory_costs -> 0..(num_periods_ - 1)] :
     \A k \in DOMAIN inventory_costs :
       /\ dv[k] >= inventory_costs[k].delivery.min
       /\ dv[k] <= inventory_costs[k].delivery.max}

\* lines 351-352: the values of inventory_costs, each
\* MakeDifference(due_date, delivery), under the delivery values dv
InventoryCostValues(dv) ==
  [k \in DOMAIN inventory_costs |-> inventory_costs[k].due_date - dv[k]]

\* ObjectiveValue without the sum of the transition costs
ObjectiveValue_InventoryOnly(dv, tcs) ==
  SumSeq(InventoryCostValues(dv)) * inventory_cost_

\* lines 395-398: the value of objective_var
ObjectiveValue(dv, tcs) ==
  SumSeq(InventoryCostValues(dv)) * inventory_cost_ + SumSeq(tcs)

\* line 399: the step of MakeMinimize(objective_var, 1)
ObjectiveStep == 1

\* The engine's minimisation of objective_var: the first solution is taken as
\* it is, a later one only when its value is below the last reported value by
\* the step at least.
Improves(value) ==
  IF num_solutions = 0 THEN TRUE
  ELSE value <= objective_value - ObjectiveStep

\* one call of solver.NextSolution() that reports a solution
NextSolution ==
  /\ num_periods_ >= 1
  /\ \E s \in Schedules(num_periods_), dv \in DeliveryValues :
       /\ Improves(ObjectiveValue(dv, s.transition_costs))
       /\ items' = s.items
       /\ products' = s.products
       /\ states' = s.states
       /\ transition_costs' = s.transition_costs
       /\ delivery_values' = dv
       /\ objective_value' = ObjectiveValue(dv, s.transition_costs)
  /\ num_solutions' = num_solutions + 1
  /\ pc' = "solution"
  /\ UNCHANGED <<dataVars, readerVars, countVars, buildVars, swapVars,
                 filterVars>>

\* Solve, lines 434-435: the first call of NextSolution, after NewSearch
Solve_NextSolution == pc = "built" /\ NextSolution

\* Solve, line 435: a later call of NextSolution, at the head of the loop
Solve_NextSolution_Loop == pc = "solution" /\ NextSolution

-----------------------------------------------------------------------------
(* Swap                                                                    *)

\* the arrays of n variables that hold each of 0..n-1 once
PermutationsOf(n) ==
  {f \in [1..n -> 0..(n - 1)] : \A a, b \in 1..n : f[a] = f[b] => a = b}

\* what reading or writing past the end of an array yields when the process
\* goes on: the read value
GarbageValues == {0, 1}

\* IntVarLocalSearchOperator::OldValue(index); past the end of the array the
\* read is undefined and yields gv
OldValue(index, gv) ==
  IF index \in 0..(swap_size - 1) THEN At(old_values, index) ELSE gv

\* IntVarLocalSearchOperator::SetValue(index, value) on the array v; past the
\* end of the array the write is undefined and leaves v as it is
SetValue(v, index, value) ==
  IF index \in 0..(Len(v) - 1) THEN [v EXCEPT ![index + 1] = value] ELSE v

\* the operator is started on an assignment: Start copies its values and
\* calls Swap::OnStart
Swap_OnStart(assignment) ==
  /\ swap_ret # "crashed"
  /\ old_values' = assignment
  /\ swap_values' = assignment
  /\ index1_' = 0
  /\ index2_' = 0
  /\ proposed' = <<>>
  /\ swap_ret' = "none"
  /\ UNCHANGED <<swap_size, dataVars, readerVars, pc, countVars, buildVars,
                 schedVars, filterVars>>

\* Swap::MakeOneNeighbor, called on the values as they were at Start
\* (MakeNextNeighbor reverts the previous neighbor first)
Swap_MakeOneNeighbor ==
  /\ swap_ret \in {"none", "true"}
  /\ Len(proposed) < MaxMoves
  /\ LET wrap == index2_ + 1 = swap_size
         i2 == IF wrap THEN 0 ELSE index2_ + 1
         i1 == IF wrap THEN index1_ + 1 ELSE index1_
         inside == i1 \in 0..(swap_size - 1) /\ i2 \in 0..(swap_size - 1)
     IN
     /\ index1_' = i1
     /\ index2_' = i2
     /\ IF i1 = swap_size - 1
        THEN /\ swap_ret' = "false"
             /\ swap_values' = old_values
             /\ UNCHANGED proposed
        ELSE \E gv \in GarbageValues, crash \in BOOLEAN :
               /\ crash => ~inside
               /\ inside => gv = 0
               /\ swap_ret' = IF crash THEN "crashed" ELSE "true"
               /\ swap_values' =
                    SetValue(SetValue(old_values, i1, OldValue(i2, gv)),
                             i2, OldValue(i1, gv))
               /\ proposed' = Append(proposed, <<i1, i2>>)
  /\ UNCHANGED <<swap_size, old_values, dataVars, readerVars, pc, countVars,
                 buildVars, schedVars, filterVars>>

-----------------------------------------------------------------------------
(* Filter                                                                  *)

\* Filter::Evaluate
Evaluate == 0

\* the deltas over n variables: for each variable at most one element, with
\* its new value and whether it is activated, in the order of the container
Deltas(n) ==
  {d \in SeqsUpTo([var : 0..(n - 1), value : 0..(n - 1),
                   activated : BOOLEAN], n) :
     \A a, b \in DOMAIN d : a < b => d[a].var < d[b].var}

\* IntVarLocalSearchFilter::FindIndex(var, &index) for a variable of the
\* filter, which is named by its index
FindIndex(var) == var

RECURSIVE ApplyLoop(_, _, _)
\* Filter::Accept, lines 225-230, from element index on
ApplyLoop(tmp, delta, index) ==
  IF index >= Len(delta) THEN tmp
  ELSE ApplyLoop([tmp EXCEPT ![FindIndex(At(delta, index).var) + 1] =
                    At(delta, index).value],
                 delta, index + 1)

RECURSIVE PositionLoop(_, _, _)
\* Filter::OnSynchronize, lines 203-209, from variable i on: the array
\* current_position_; a write past its end is undefined and is dropped
PositionLoop(pos, values, i) ==
  IF i >= Len(values) THEN pos
  ELSE PositionLoop(IF At(values, i) # -1
                    THEN SetValue(pos, At(values, i), i) ELSE pos,
                    values, i + 1)

\* Filter::OnSynchronize writes current_position_[value] for every value
WritesPastPositions(values) ==
  \E i \in DOMAIN values :
    values[i] # -1 /\ values[i] \notin 0..(filter_items - 1)

\* the filter is synchronized with an assignment: Synchronize copies its
\* values and calls Filter::OnSynchronize
Filter_OnSynchronize(assignment) ==
  /\ filter_state # "crashed"
  /\ \E crash \in BOOLEAN :
       /\ crash => WritesPastPositions(assignment)
       /\ filter_state' = IF crash THEN "crashed" ELSE "synchronized"
  /\ filter_values' = assignment
  /\ tmp_solution_' = assignment
  /\ current_position_' = PositionLoop(current_position_, assignment, 0)
  /\ current_cost_' = Evaluate
  /\ last_delta' = <<>>
  /\ accept_ret' = "none"
  /\ scratch_was_changed' = FALSE
  /\ UNCHANGED <<filter_items, dataVars, readerVars, pc, countVars,
                 buildVars, schedVars, swapVars>>

\* Filter_Accept with the comparison "<=" in place of "<"
Filter_Accept_NotStrict(delta) ==
  /\ filter_state = "synchronized"
  /\ last_delta' = delta
  /\ scratch_was_changed' = (tmp_solution_ # filter_values)
  /\ IF \E i \in DOMAIN delta : ~delta[i].activated
     THEN /\ tmp_solution_' = filter_values
          /\ accept_ret' = "true"
     ELSE /\ tmp_solution_' = ApplyLoop(filter_values, delta, 0)
          /\ accept_ret' = IF Evaluate <= current_cost_ THEN "true"
                           ELSE "false"
  /\ UNCHANGED <<filter_items, filter_values, current_position_,
                 current_cost_, filter_state, dataVars, readerVars, pc,
                 countVars, buildVars, schedVars, swapVars>>

\* Filter_Accept without the loop of lines 220-224 that returns true on an
\* element that is not activated
Filter_Accept_NoActivationTest(delta) ==
  /\ filter_state = "synchronized"
  /\ last_delta' = delta
  /\ scratch_was_changed' = (tmp_solution_ # filter_values)
  /\ tmp_solution_' = ApplyLoop(filter_values, delta, 0)
  /\ accept_ret' = IF Evaluate < current_cost_ THEN "true" ELSE "false"
  /\ UNCHANGED <<filter_items, filter_values, current_position_,
                 current_cost_, filter_state, dataVars, readerVars, pc,
                 countVars, buildVars, schedVars, swapVars>>

\* Filter_Accept without the loop of lines 217-219 that copies the
\* synchronized values to tmp_solution_
Filter_Accept_NoRebuild(delta) ==
  /\ filter_state = "synchronized"
  /\ last_delta' = delta
  /\ scratch_was_changed' = (tmp_solution_ # filter_values)
  /\ IF \E i \in DOMAIN delta : ~delta[i].activated
     THEN /\ tmp_solution_' = tmp_solution_
          /\ accept_ret' = "true"
     ELSE /\ tmp_solution_' = ApplyLoop(tmp_solution_, delta, 0)
          /\ accept_ret' = IF Evaluate < current_cost_ THEN "true"
                           ELSE "false"
  /\ UNCHANGED <<filter_items, filter_values, current_position_,
                 current_cost_, filter_state, dataVars, readerVars, pc,
                 countVars, buildVars, schedVars, swapVars>>

\* Filter::Accept
Filter_Accept(delta) ==
  /\ filter_state = "synchronized"
  /\ last_delta' = delta
  /\ scratch_was_changed' = (tmp_solution_ # filter_values)
  /\ IF \E i \in DOMAIN delta : ~delta[i].activated
     THEN /\ tmp_solution_' = filter_values
          /\ accept_ret' = "true"
     ELSE /\ tmp_solution_' = ApplyLoop(filter_values, delta, 0)
          /\ accept_ret' = IF Evaluate < current_cost_ THEN "true"
                           ELSE "false"
  /\ UNCHANGED <<filter_items, filter_values, current_position_,
                 current_cost_, filter_state, dataVars, readerVars, pc,
                 countVars, buildVars, schedVars, swapVars>>

-----------------------------------------------------------------------------
(* Initial values of the parts a specification does not use.               *)

DataInit ==
  /\ num_periods_ = -1 /\ num_products_ = -1 /\ inventory_cost_ = 0
  /\ due_dates_per_product_ = <<>> /\ transitions_ = <<>> /\ state_ = 0

SolveInit ==
  /\ num_items = 0 /\ num_residuals = 0
  /\ item_to_product = <<>> /\ max_cost = 0
  /\ transition_cost_tuples = {} /\ product_tuples = {}
  /\ deliveries = <<>> /\ less_constraints = <<>> /\ inventory_costs = <<>>
  /\ items = <<>> /\ products = <<>> /\ states = <<>>
  /\ transition_costs = <<>> /\ delivery_values = <<>>
  /\ objective_value = 0 /\ num_solutions = 0

SwapIdle ==
  /\ swap_size = 0 /\ index1_ = 0 /\ index2_ = 0
  /\ old_values = <<>> /\ swap_values = <<>> /\ proposed = <<>>
  /\ swap_ret = "none"

FilterIdle ==
  /\ filter_items = 0 /\ filter_values = <<>> /\ tmp_solution_ = <<>>
  /\ current_position_ = <<>> /\ current_cost_ = 0
  /\ filter_state = "constructed" /\ last_delta = <<>> /\ accept_ret = "none"
  /\ scratch_was_changed = FALSE

-----------------------------------------------------------------------------
(* Spec: Solve loads a file line by line and builds the model.             *)

Init ==
  /\ DataInit
  /\ reader = "closed" /\ lines_read = 0 /\ flag_rows = <<>>
  /\ pc = "load"
  /\ SolveInit /\ SwapIdle /\ FilterIdle

Next ==
  \/ Load_Unreadable
  \/ Load_Open
  \/ \E line \in Lines : ProcessNewLine(line)
  \/ Load_Eof
  \/ Solve_CountItems
  \/ Solve_BuildModel

Spec == Init /\ [][Next]_vars

-----------------------------------------------------------------------------
(* SpecModel: Solve builds the model of a loaded instance and reports its   *)
(* first solution.                                                         *)

\* the strictly increasing sequence of the elements of a set of periods
RECURSIVE Sorted(_)
Sorted(S) ==
  IF S = {} THEN <<>>
  ELSE LET m == CHOOSE x \in S : \A y \in S : x <= y
       IN <<m>> \o Sorted(S \ {m})

\* a transition matrix for n products
CostMatrix(n, seed) ==
  [i \in 1..n |-> [j \in 1..n |->
     ((i - 1) + 2 * (j - 1) + seed) % (MaxCost + 1)]]

\* the instances of at most nperiods periods, nproducts products and nitems
\* items, as loaded
LoadedInstance(nperiods, nproducts, nitems) ==
  /\ num_periods_ \in 1..nperiods
  /\ num_products_ \in 0..nproducts
  /\ \E due \in [1..num_products_ -> SUBSET (0..(num_periods_ - 1))] :
       /\ due_dates_per_product_ = [p \in 1..num_products_ |-> Sorted(due[p])]
       /\ flag_rows = [p \in 1..num_products_ |->
                         [i \in 1..num_periods_ |-> (i - 1) \in due[p]]]
  /\ SumSizes(due_dates_per_product_) <= nitems
  /\ \E seed \in {0, 1} :
       transitions_ = CostMatrix(num_products_, seed)
  /\ inventory_cost_ = 1
  /\ state_ = IF num_products_ = 0 THEN 2 ELSE 4
  /\ reader = "loaded"
  /\ lines_read = IF num_products_ = 0 THEN 2 ELSE 3 + 2 * num_products_
  /\ pc = "count"
  /\ SolveInit /\ SwapIdle /\ FilterIdle

InitModel == LoadedInstance(MaxPeriods, MaxProducts, MaxItems)

NextModel ==
  \/ Solve_CountItems
  \/ Solve_BuildModel
  \/ Solve_NextSolution

SpecModel == InitModel /\ [][NextModel]_vars

-----------------------------------------------------------------------------
(* SpecSearch: Solve builds the model of a loaded instance and runs the    *)
(* loop of NextSolution.                                                   *)

InitSearch == LoadedInstance(MaxSearchPeriods, MaxProducts, MaxSearchItems)

NextSearch ==
  \/ Solve_CountItems
  \/ Solve_BuildModel
  \/ Solve_NextSolution
  \/ Solve_NextSolution_Loop

SpecSearch == InitSearch /\ [][NextSearch]_vars

-----------------------------------------------------------------------------
(* SpecSwap: a Swap operator over the item variables of some schedule.     *)

LoaderIdle ==
  /\ DataInit
  /\ reader = "closed" /\ lines_read = 0 /\ flag_rows = <<>>
  /\ pc = "load"
  /\ SolveInit

InitSwap ==
  /\ LoaderIdle /\ FilterIdle
  /\ swap_size \in 0..MaxSwapSize
  /\ old_values \in PermutationsOf(swap_size)
  /\ swap_values = old_values
  /\ index1_ = 0 /\ index2_ = 0
  /\ proposed = <<>> /\ swap_ret = "none"

NextSwap ==
  \/ \E assignment \in PermutationsOf(swap_size) : Swap_OnStart(assignment)
  \/ Swap_MakeOneNeighbor

SpecSwap == InitSwap /\ [][NextSwap]_vars

-----------------------------------------------------------------------------
(* SpecFilter: a Filter over the item variables of some schedule.          *)

InitFilter ==
  /\ LoaderIdle /\ SwapIdle
  /\ \E n \in 1..MaxFilterSize :
       /\ filter_items \in 0..n
       /\ filter_values = [i \in 1..n |-> 0]
       /\ tmp_solution_ = [i \in 1..n |-> 0]
  /\ current_position_ = [i \in 1..filter_items |-> 0]
  /\ current_cost_ = 0
  /\ filter_state = "constructed"
  /\ last_delta = <<>> /\ accept_ret = "none"
  /\ scratch_was_changed = FALSE

NextFilter ==
  \/ \E assignment \in PermutationsOf(Len(filter_values)) :
       Filter_OnSynchronize(assignment)
  \/ \E delta \in Deltas(Len(filter_values)) : Filter_Accept(delta)

SpecFilter == InitFilter /\ [][NextFilter]_vars

-----------------------------------------------------------------------------
(* Properties of the loader and of the model construction.                 *)

\* Solve has computed num_items and num_residuals
Counted == pc \in {"build", "built", "crashed"}

\* the load ran to the end of the file without a failed CHECK
LoadedSuccessfully == reader = "loaded"

\* the instance holds num_products rows of due dates and a square matrix
CompleteInstance ==
  /\ num_periods_ >= 1 /\ num_products_ >= 0
  /\ Len(due_dates_per_product_) = num_products_
  /\ Len(transitions_) = num_products_
  /\ \A i \in DOMAIN transitions_ : Len(transitions_[i]) = num_products_

RECURSIVE CountFlags(_)
\* the number of 1 flags in the due-date rows of the file
CountFlags(rows) ==
  IF rows = <<>> THEN 0
  ELSE Cardinality({i \in DOMAIN Head(rows) : Head(rows)[i]})
       + CountFlags(Tail(rows))

StrictlyIncreasing(v) == \A a, b \in DOMAIN v : a < b => v[a] < v[b]

\* C2 (as claimed): once the model is built from a complete instance whose
\* items fit the periods, the vector handed to the inverse-permutation
\* constraint holds the delivery variable of every real item, in item order,
\* followed by one variable per residual slot: num_periods entries in all.
C2_DeliveriesHoldEveryItem ==
  (pc = "built" /\ LoadedSuccessfully /\ CompleteInstance
     /\ num_residuals >= 0)
  => /\ Len(deliveries) = num_periods_
     /\ deliveries =
          [k \in 1..num_items |-> inventory_costs[k].delivery]
            \o Repeat(InactiveVar, num_residuals)

\* C4: the transition-cost relation of an instance with P products holds
\* exactly 2*P*P + 3*P + 1 tuples, whatever the transition costs.
C4_TransitionTupleCount ==
  (pc = "built" /\ num_products_ >= 0)
  => Cardinality(transition_cost_tuples)
       = 2 * num_products_ * num_products_ + 3 * num_products_ + 1

\* C4 witness: a relation built for two products whose costs are all equal
C4_Witness ==
  /\ pc = "built" /\ LoadedSuccessfully
  /\ num_products_ = 2
  /\ transitions_ = << <<1, 1>>, <<1, 1>> >>
  /\ Cardinality(transition_cost_tuples) = 15

\* C5 (as claimed): when the file cannot be opened the process aborts, and
\* Solve never computes item counts or builds a model.
C5_UnreadableFileIsFatal == reader = "failed" => ~Counted

\* the number of tokens the format requires on the line read in state_
RequiredTokens ==
  CASE state_ = 2 -> num_periods_
    [] state_ = 4 -> num_products_
    [] OTHER -> 1

\* C6 (as claimed): every non-empty line whose token count differs from what
\* its position in the format requires aborts the load.
C6_WrongTokenCountIsFatal ==
  [][\A line \in Lines :
       (ProcessNewLine(line) /\ Split(line) # <<>>
          /\ Len(Split(line)) # RequiredTokens)
       => pc' = "aborted"]_vars

\* C7 (as claimed): a load that succeeds has read exactly num_products
\* due-date rows and exactly num_products transition rows of num_products
\* entries.
C7_LoadedInstanceIsComplete ==
  LoadedSuccessfully
  => /\ Len(due_dates_per_product_) = num_products_
     /\ Len(transitions_) = num_products_
     /\ \A i \in DOMAIN transitions_ : Len(transitions_[i]) = num_products_

\* C9: after a successful load the due dates of every product are, in
\* strictly increasing order, exactly the periods flagged 1 in its row, and
\* the number of items is the number of 1 flags in the file.
C9_DueDatesAreFlaggedPeriods ==
  LoadedSuccessfully
  => /\ Len(due_dates_per_product_) = Len(flag_rows)
     /\ \A p \in DOMAIN due_dates_per_product_ :
          /\ StrictlyIncreasing(due_dates_per_product_[p])
          /\ {due_dates_per_product_[p][k] :
                k \in DOMAIN due_dates_per_product_[p]}
               = {i \in 0..(num_periods_ - 1) : flag_rows[p][i + 1]}
     /\ Counted => num_items = CountFlags(flag_rows)

\* C9 witness: a loaded file with a product due in two periods and a product
\* with an unflagged period, whose items have been counted
C9_Witness ==
  /\ LoadedSuccessfully /\ Counted
  /\ \E p \in DOMAIN due_dates_per_product_ :
       Len(due_dates_per_product_[p]) = 2
  /\ \E p \in DOMAIN flag_rows : \E i \in DOMAIN flag_rows[p] :
       ~flag_rows[p][i]
  /\ num_items = 3

\* C10 (as claimed): after a successful load (here even of a complete
\* instance) the items never outnumber the periods, so num_residuals is never
\* negative.
C10_ItemsFitPeriods ==
  (LoadedSuccessfully /\ Counted /\ CompleteInstance) => num_residuals >= 0

\* C10 (amended): after a successful load num_residuals is num_periods minus
\* the number of items, every due-date row holds at most num_periods items,
\* and so num_residuals is at least num_periods minus rows * num_periods; it
\* is negative when the flags outnumber the periods.
C10_ResidualsAreTheDifference ==
  (LoadedSuccessfully /\ Counted)
  => /\ num_items + num_residuals = num_periods_
     /\ \A p \in DOMAIN due_dates_per_product_ :
          Len(due_dates_per_product_[p]) <= num_periods_
     /\ num_residuals >= num_periods_ - Len(flag_rows) * num_periods_
     /\ (num_residuals < 0 <=> CountFlags(flag_rows) > num_periods_)

\* C10 witness: a loaded file whose flags outnumber its periods
C10_Witness ==
  /\ LoadedSuccessfully /\ Counted
  /\ num_periods_ = 1 /\ num_products_ = 2
  /\ num_items = 2 /\ num_residuals = -1

-----------------------------------------------------------------------------
(* Properties of Swap and of Filter.                                       *)

\* C1 (as claimed): when a pass of Swap over n variables ends, it has
\* proposed n*(n-1)/2 moves, one for each pair (i,j) with i < j and each pair
\* once; with n <= 1 it has proposed none.
C1_EachPairOnce ==
  swap_ret = "false"
  => /\ Len(proposed) = (swap_size * (swap_size - 1)) \div 2
     /\ {proposed[k] : k \in DOMAIN proposed}
          = {<<i, j>> \in (0..(swap_size - 1)) \X (0..(swap_size - 1)) :
               i < j}

\* the synchronized values with every element of the delta applied
WithDelta(values, delta) ==
  [i \in DOMAIN values |->
     IF \E k \in DOMAIN delta : delta[k].var = i - 1
     THEN delta[CHOOSE k \in DOMAIN delta : delta[k].var = i - 1].value
     ELSE values[i]]

\* C8: Accept returns true when some element of the delta is not activated;
\* otherwise its scratch schedule is the synchronized one with every element
\* of the delta applied, and it returns true exactly when the cost of that
\* schedule is less than the cost cached at the last OnSynchronize.
C8_AcceptIffCheaper ==
  accept_ret \in {"true", "false"}
  => IF \E k \in DOMAIN last_delta : ~last_delta[k].activated
     THEN accept_ret = "true"
     ELSE /\ tmp_solution_ = WithDelta(filter_values, last_delta)
          /\ accept_ret = "true" <=> Evaluate < current_cost_

\* C8 witness: Accept has judged a delta of two activated elements that
\* changes the schedule
C8_Witness ==
  /\ accept_ret = "false"
  /\ Len(last_delta) = 2
  /\ \A k \in DOMAIN last_delta : last_delta[k].activated
  /\ tmp_solution_ # filter_values

-----------------------------------------------------------------------------
(* Properties of the schedules.                                            *)

\* C3 (as claimed): in every schedule that satisfies the model, of one period
\* or more, state[0] is none (-1) if and only if product[0] is idle (-1).
C3_FirstStateNoneIffIdle ==
  pc = "solution" => (At(states, 0) = -1 <=> At(products, 0) = -1)

-----------------------------------------------------------------------------
(* Properties of the search loop.                                          *)

\* inventory_cost_rate * sum of the inventory costs + sum of the transition
\* costs of the solution last reported
SolutionCost ==
  inventory_cost_
    * SumSeq([k \in DOMAIN delivery_values |->
                inventory_costs[k].due_date - delivery_values[k]])
  + SumSeq(transition_costs)

\* C11: each solution that NextSolution reports after the first has an
\* objective value strictly smaller than the solution reported before it.
C11_SolutionsStrictlyImprove ==
  [][(pc = "solution" /\ pc' = "solution") => SolutionCost' < SolutionCost]_vars

\* C11 witness: a third solution has been reported, with an item delivered
\* on its due date and no transition cost
C11_Witness ==
  /\ pc = "solution" /\ num_solutions = 3
  /\ num_items = 1
  /\ SolutionCost = 0

-----------------------------------------------------------------------------
(* Properties of the Filter with the stubbed Evaluate.                     *)

\* C12 (as claimed): with Evaluate returning zero, Accept returns true for
\* every delta, fully activated or not.
C12_AcceptsEveryMove == accept_ret # "false"

\* C12 (amended): with Evaluate returning zero, Accept returns true exactly
\* for the deltas that hold an element that is not activated; every fully
\* activated delta, the empty one included, is rejected.
C12_AcceptsOnlyPartialDeltas ==
  accept_ret \in {"true", "false"}
  => (accept_ret = "true"
        <=> \E k \in DOMAIN last_delta : ~last_delta[k].activated)

\* C12 witness: Accept has rejected a delta of one activated element
C12_Witness ==
  /\ accept_ret = "false"
  /\ Len(last_delta) = 1
  /\ last_delta[1].activated

\* C19 (as claimed): every write current_position_[value] = i of
\* OnSynchronize, for a synchronized permutation of [0, num_periods), falls
\* inside current_position_, whose length is the number of real items.
C19_PositionWritesInBounds ==
  filter_state \in {"synchronized", "crashed"}
  => \A i \in DOMAIN filter_values :
       filter_values[i] # -1 => filter_values[i] \in 0..(filter_items - 1)

\* C20: a call of Accept leaves the cached cost and the synchronized values
\* as they are, and its scratch schedule is the synchronized one, with the
\* delta applied when every element is activated, whatever the scratch
\* schedule held before the call; its outcome is a function of the cached
\* cost, the synchronized values and the delta.
C20_AcceptDependsOnSynchronizedOnly ==
  [][accept_ret' \in {"true", "false"}
     => /\ current_cost_' = current_cost_
        /\ filter_values' = filter_values
        /\ current_position_' = current_position_
        /\ tmp_solution_' =
             IF \E k \in DOMAIN last_delta' : ~last_delta'[k].activated
             THEN filter_values
             ELSE WithDelta(filter_values, last_delta')
        /\ accept_ret' = "true"
             <=> \/ \E k \in DOMAIN last_delta' : ~last_delta'[k].activated
                 \/ Evaluate < current_cost_]_vars

\* C20 witness: Accept has found the scratch schedule changed by an earlier
\* candidate and has left it equal to the synchronized one
C20_Witness ==
  /\ accept_ret \in {"true", "false"}
  /\ scratch_was_changed
  /\ tmp_solution_ = filter_values

-----------------------------------------------------------------------------
(* Properties of the states and transition costs of a schedule.            *)

RECURSIVE LastActiveBefore(_, _)
\* the product of the most recent active period before period p (1-based
\* position p), or none (-1) when no earlier period is active
LastActiveBefore(prods, p) ==
  IF p <= 1 THEN -1
  ELSE IF prods[p - 1] # -1 THEN prods[p - 1]
  ELSE LastActiveBefore(prods, p - 1)

\* C13 (as claimed): in every schedule, state[p] = product[p] when product[p]
\* is active, and otherwise state[p] is the product of the most recent
\* active period before p, or none when there is no such period.
C13_StateIsLastActive ==
  pc = "solution"
  => \A p \in DOMAIN products :
       states[p] = IF products[p] # -1 THEN products[p]
                   ELSE LastActiveBefore(products, p)

\* C14: in every schedule the cost of the pair (p, p + 1) is
\* transitions[state[p]][product[p + 1]] when product[p + 1] is active and
\* state[p] is not none, and 0 when product[p + 1] is idle or state[p] is
\* none.
C14_TransitionCostIsDetermined ==
  pc = "solution"
  => \A p \in 1..(Len(products) - 1) :
       transition_costs[p] =
         IF products[p + 1] # -1 /\ states[p] # -1
         THEN At(At(transitions_, states[p]), products[p + 1])
         ELSE 0

\* C14 witness: a switch from product 0 to product 1 after an idle period,
\* charged from the state carried through the idle period
C14_Witness ==
  /\ pc = "solution"
  /\ products = <<0, -1, 1>>
  /\ states = <<0, 0, 1>>
  /\ transition_costs[1] = 0
  /\ transition_costs[2] = At(At(transitions_, 0), 1)
  /\ transition_costs[2] > 0

-----------------------------------------------------------------------------
(* Properties of the delivery variables and of the item-assignment         *)
(* relation.                                                               *)

\* C15 (as claimed): the delivery variable of every item has the domain
\* [0, due_date], and for every item after the first of its product one
\* MakeLess constraint is posted, whose left operand is the delivery
\* variable of the preceding item of that product.
C15_DeliveriesOrderedWithinProduct ==
  (pc = "built" /\ LoadedSuccessfully /\ CompleteInstance)
  => /\ \A k \in DOMAIN inventory_costs :
          /\ inventory_costs[k].delivery.min = 0
          /\ inventory_costs[k].delivery.max = inventory_costs[k].due_date
     /\ Len(less_constraints) = num_items - Cardinality({i \in DOMAIN
           due_dates_per_product_ : due_dates_per_product_[i] # <<>>})
     /\ \A c \in DOMAIN less_constraints :
          less_constraints[c].left.name =
            <<"delivery", less_constraints[c].right.name[2],
              less_constraints[c].right.name[3] - 1>>

\* C16 (as claimed): the item-assignment relation of an instance whose items
\* fit its periods holds the pair (k, item_to_product[k]) of every item k,
\* the pair (k, idle) of every residual slot num_items <= k < num_periods,
\* and nothing else: num_periods pairs.
C16_OnePairPerSlot ==
  (pc = "built" /\ LoadedSuccessfully /\ CompleteInstance
     /\ num_residuals >= 0)
  => /\ product_tuples =
          {<<k, At(item_to_product, k)>> : k \in 0..(num_items - 1)}
            \cup {<<k, -1>> : k \in num_items..(num_periods_ - 1)}
     /\ Cardinality(product_tuples) = num_periods_

-----------------------------------------------------------------------------
(* Properties of the moves and of the passes of Swap.                      *)

\* C17 (as claimed): a move proposed for the pair (index1, index2) holds at
\* index1 the value that index2 had before the move and at index2 the value
\* that index1 had, leaves every other position as it was, and so is again
\* a permutation of the values of 0..size-1.
C17_MoveExchangesTwoValues ==
  (swap_size >= 1 /\ swap_ret \in {"true", "crashed"})
  => LET index1 == proposed[Len(proposed)][1]
         index2 == proposed[Len(proposed)][2]
     IN
     /\ index1 \in 0..(swap_size - 1)
     /\ index2 \in 0..(swap_size - 1)
     /\ At(swap_values, index1) = At(old_values, index2)
     /\ At(swap_values, index2) = At(old_values, index1)
     /\ \A k \in 0..(swap_size - 1) :
          k \notin {index1, index2} => At(swap_values, k) = At(old_values, k)
     /\ swap_values \in PermutationsOf(swap_size)

\* C18 (as claimed): in a pass over an array of any size n >= 0 the outer
\* index never exceeds size - 1 (where MakeOneNeighbor returns false and the
\* pass ends).
C18_OuterIndexStaysBelowSize ==
  swap_ret # "none" => index1_ <= swap_size - 1

====
